---- MODULE Spec2Model ----
(***************************************************************************)
(* Model of the saypi authentication controller (package auth), the typed  *)
(* API client (package client) and the application constructor (package    *)
(* app).  Byte strings are sequences of integers 0..255, text strings that *)
(* the code indexes or slices are sequences of one-character strings.      *)
(***************************************************************************)
EXTENDS Integers, Sequences, FiniteSets, TLC

(***************************************************************************)
(* Program constants.                                                      *)
(***************************************************************************)
\* auth: const idLen = 16
idLen == 16
\* sha256.Size, the value mac.Size() returns for hmac.New(sha256.New, ...)
sha256Size == 32

(***************************************************************************)
(* Bounds of the model.                                                    *)
(***************************************************************************)
\* largest number of methods a Route's HTTPMethods() map holds
MaxMethods == 2
\* largest number of keys in a form handed to NewRequest
MaxFormKeys == 1

(***************************************************************************)
(* crypto/hmac with crypto/sha256.  The digest itself is an abstract keyed *)
(* hash: 32 bytes that depend on the key and on every byte written.        *)
(***************************************************************************)
RECURSIVE Absorb(_, _)
Absorb(acc, bytes) ==
    IF bytes = <<>> THEN acc
    ELSE Absorb((acc * 31 + Head(bytes) + 1) % 65521, Tail(bytes))

HMACSHA256(key, msg) ==
    LET seed == Absorb((Absorb(7, key) * 257 + 13) % 65521, msg)
    IN  [i \in 1..sha256Size |-> (seed * (2 * i + 1) + i * i + (seed \div 256)) % 256]

\* hmac.New(sha256.New, key): a hash.Hash holding the key and the bytes written so far
hmacNew(key) == [key |-> key, written |-> <<>>]

\* hash.Hash.Size
hmacSize(h) == sha256Size

\* hash.Hash.Sum(b): appends the digest of the bytes WRITTEN so far to b;
\* b itself is not hashed.
hmacSum(h, b) == b \o HMACSHA256(h.key, h.written)

\* hmac.Equal: subtle.ConstantTimeCompare(a, b) == 1, which is 0 on a length mismatch
hmacEqual(a, b) == Len(a) = Len(b) /\ a = b

(***************************************************************************)
(* encoding/base64, URLEncoding (padded, non-strict).                      *)
(***************************************************************************)
encodeURL ==
    << "A","B","C","D","E","F","G","H","I","J","K","L","M","N","O","P",
       "Q","R","S","T","U","V","W","X","Y","Z","a","b","c","d","e","f",
       "g","h","i","j","k","l","m","n","o","p","q","r","s","t","u","v",
       "w","x","y","z","0","1","2","3","4","5","6","7","8","9","-","_" >>

padChar == "="

URLChars == {encodeURL[i] : i \in 1..64}

\* Encoding.decodeMap: the value (0..63) of each alphabet character
decodeMap == [c \in URLChars |-> (CHOOSE i \in 1..64 : encodeURL[i] = c) - 1]

digitOf(c) == decodeMap[c]

RECURSIVE EncodeToString(_)
EncodeToString(src) ==
    LET n == Len(src) IN
    IF n = 0 THEN <<>>
    ELSE IF n = 1 THEN
        LET val == src[1] * 65536
        IN  << encodeURL[((val \div 262144) % 64) + 1],
               encodeURL[((val \div 4096) % 64) + 1], padChar, padChar >>
    ELSE IF n = 2 THEN
        LET val == src[1] * 65536 + src[2] * 256
        IN  << encodeURL[((val \div 262144) % 64) + 1],
               encodeURL[((val \div 4096) % 64) + 1],
               encodeURL[((val \div 64) % 64) + 1], padChar >>
    ELSE
        LET val == src[1] * 65536 + src[2] * 256 + src[3]
        IN  << encodeURL[((val \div 262144) % 64) + 1],
               encodeURL[((val \div 4096) % 64) + 1],
               encodeURL[((val \div 64) % 64) + 1],
               encodeURL[(val % 64) + 1] >> \o EncodeToString(SubSeq(src, 4, n))

\* the decoder skips '\r' and '\n' wherever they stand
stripNewlines(s) == SelectSeq(s, LAMBDA c : c # "\n" /\ c # "\r")

\* the bytes of one quantum of dlen digits (2, 3 or 4)
quantumBytes(d, dlen) ==
    LET val == d[1] * 262144 + d[2] * 4096
               + (IF dlen >= 3 THEN d[3] * 64 ELSE 0)
               + (IF dlen >= 4 THEN d[4] ELSE 0)
        b1 == (val \div 65536) % 256
        b2 == (val \div 256) % 256
        b3 == val % 256
    IN  IF dlen = 4 THEN <<b1, b2, b3>>
        ELSE IF dlen = 3 THEN <<b1, b2>>
        ELSE <<b1>>

\* Encoding.decodeQuantum, run over the whole input: s is the input without
\* newlines, i the next position, acc the bytes decoded so far.
RECURSIVE decodeFrom(_, _, _)
decodeFrom(s, i, acc) ==
    LET n == Len(s)
        left == n - i + 1
        isDigit(k) == s[i + k] \in URLChars
        dg(k) == digitOf(s[i + k])
    IN
    IF left = 0 THEN [ok |-> TRUE, raw |-> acc]
    ELSE IF left = 1 THEN [ok |-> FALSE, raw |-> acc]
    ELSE IF ~isDigit(0) \/ ~isDigit(1) THEN [ok |-> FALSE, raw |-> acc]
    \* with padding in use the input may not end inside a quantum
    ELSE IF left < 4 THEN [ok |-> FALSE, raw |-> acc]
    ELSE IF isDigit(2) THEN
        IF isDigit(3) THEN
            decodeFrom(s, i + 4, acc \o quantumBytes(<<dg(0), dg(1), dg(2), dg(3)>>, 4))
        ELSE IF s[i + 3] = padChar /\ left = 4 THEN
            [ok |-> TRUE, raw |-> acc \o quantumBytes(<<dg(0), dg(1), dg(2)>>, 3)]
        ELSE [ok |-> FALSE, raw |-> acc]
    ELSE IF s[i + 2] = padChar /\ s[i + 3] = padChar /\ left = 4 THEN
        [ok |-> TRUE, raw |-> acc \o quantumBytes(<<dg(0), dg(1)>>, 2)]
    ELSE [ok |-> FALSE, raw |-> acc]

\* base64.URLEncoding.DecodeString: ok is err == nil
DecodeString(s) == decodeFrom(stripNewlines(s), 1, <<>>)

(***************************************************************************)
(* package auth: Controller                                                *)
(***************************************************************************)
\* make([]byte, 0, idLen): length 0 (the capacity holds no bytes)
makeUser == <<>>

\* rand.Read(b): fills the len(b) bytes of b from the random source
randRead(b, rnd) == [i \in 1..Len(b) |-> rnd[i]]

\* the body json.NewEncoder(w).Encode(struct{ID string `json:"id"`}{id}) writes;
\* the characters of a base64url string need no escaping
jsonEncodeID(id) ==
    <<"{", "\"", "i", "d", "\"", ":", "\"">> \o id \o <<"\"", "}", "\n">>

\* Controller.CreateUser up to the encoded token
createUserToken(secret, rnd) ==
    LET user == randRead(makeUser, rnd)
        mac  == hmacSum(hmacNew(secret), user)
        full == user \o mac
    IN  EncodeToString(full)

\* a mutant of getUser: the MACs are not compared
getUser_noCompare(secret, auth) ==
    LET dec == DecodeString(auth)
    IN  IF ~dec.ok THEN <<>>
        ELSE IF Len(dec.raw) # idLen + sha256Size THEN <<>>
        ELSE SubSeq(dec.raw, 1, idLen)

\* Controller.getUser; the empty sequence is the empty string
getUser(secret, auth) ==
    LET mac == hmacNew(secret)
        dec == DecodeString(auth)
        raw == dec.raw
    IN  IF ~dec.ok THEN <<>>
        ELSE IF Len(raw) # idLen + hmacSize(mac) THEN <<>>
        ELSE LET id     == SubSeq(raw, 1, idLen)
                 \* id keeps raw's capacity, so Sum appends in place over raw[idLen:]
                 sum    == hmacSum(mac, id)
                 \* msgMac is raw[idLen:], the bytes Sum has just written
                 msgMac == SubSeq(sum, idLen + 1, Len(raw))
             IN  IF hmacEqual(msgMac, sum) THEN id ELSE <<>>

\* strings.HasPrefix(s, prefix)
HasPrefix(s, prefix) ==
    Len(s) >= Len(prefix) /\ SubSeq(s, 1, Len(prefix)) = prefix

\* strings.TrimPrefix(s, prefix)
TrimPrefix(s, prefix) ==
    IF HasPrefix(s, prefix) THEN SubSeq(s, Len(prefix) + 1, Len(s)) ELSE s

\* the literal "Bearer "
Bearer == <<"B", "e", "a", "r", "e", "r", " ">>

StatusOK == 200
StatusNoContent == 204
StatusUnauthorized == 401
StatusNotFound == 404

\* Controller.GetUser for the URL variable `id`: the status written
getUserStatus(secret, id) ==
    IF getUser(secret, id) # <<>> THEN StatusNoContent ELSE StatusNotFound

\* a mutant of wrapC: the test of getUser's result is inverted
wrapC_inverted(secret, header) ==
    IF ~HasPrefix(header, Bearer) THEN
        [status |-> StatusUnauthorized, innerCalls |-> 0, hasUserID |-> FALSE, userID |-> <<>>]
    ELSE IF getUser(secret, TrimPrefix(header, Bearer)) = <<>> THEN
        [status |-> StatusOK, innerCalls |-> 1, hasUserID |-> TRUE, userID |-> <<>>]
    ELSE
        [status |-> StatusUnauthorized, innerCalls |-> 0, hasUserID |-> FALSE, userID |-> <<>>]

\* the handler Controller.WrapC(inner) returns, run on a request whose
\* Authorization header is header (empty when the header is absent):
\* the status written, the number of calls of inner.ServeHTTPC and the
\* value stored under "userID" in the context handed to inner
wrapC(secret, header) ==
    IF ~HasPrefix(header, Bearer) THEN
        [status |-> StatusUnauthorized, innerCalls |-> 0, hasUserID |-> FALSE, userID |-> <<>>]
    ELSE
        LET auth == TrimPrefix(header, Bearer) IN
        IF getUser(secret, auth) # <<>> THEN
            \* inner writes the response; an untouched recorder reports 200
            [status |-> StatusOK, innerCalls |-> 1, hasUserID |-> TRUE, userID |-> <<>>]
        ELSE
            [status |-> StatusUnauthorized, innerCalls |-> 0, hasUserID |-> FALSE, userID |-> <<>>]

(***************************************************************************)
(* Inputs of the authentication model.                                     *)
(***************************************************************************)
Secrets == { <<115, 51, 99>>, <<7>> }

\* outputs of the random source, also used as sample identities
SampleIDs == { [i \in 1..idLen |-> i], [i \in 1..idLen |-> (7 * i + 200) % 256] }

otherSecret(s) == CHOOSE t \in Secrets : t # s

\* b with its lowest bit flipped at position p
flipBit(b, p) == [b EXCEPT ![p] = IF b[p] % 2 = 0 THEN b[p] + 1 ELSE b[p] - 1]

\* token strings presented to the controller holding secret s
tokensFor(s) ==
    LET id1   == [i \in 1..idLen |-> i]
        raw1  == id1 \o HMACSHA256(s, id1)
        good1 == EncodeToString(raw1)
    IN  { EncodeToString(id \o HMACSHA256(s, id)) : id \in SampleIDs }
        \cup { EncodeToString(flipBit(raw1, p)) : p \in {1, idLen, idLen + 1, Len(raw1)} }
        \cup { EncodeToString(id1 \o HMACSHA256(s, <<>>)),
               EncodeToString(id1 \o HMACSHA256(otherSecret(s), id1)),
               EncodeToString(HMACSHA256(s, <<>>)),
               EncodeToString(id1),
               EncodeToString(raw1 \o <<0>>),
               [good1 EXCEPT ![Len(good1)] = "!"],
               [good1 EXCEPT ![1] = "+"],
               SubSeq(good1, 1, Len(good1) - 1),
               good1 \o <<"=">>,
               good1 \o <<"\n">>,
               <<>> }

Tokens == [s \in Secrets |-> tokensFor(s)]

\* Authorization header values: absent, and a token behind several prefixes
Prefixes ==
    { Bearer,
      <<"b", "e", "a", "r", "e", "r", " ">>,
      <<"B", "e", "a", "r", "e", "r">>,
      <<"B", "a", "s", "i", "c", " ">>,
      <<" ">> \o Bearer,
      <<>> }

Headers == [s \in Secrets |-> { p \o t : p \in Prefixes, t \in Tokens[s] }]

(***************************************************************************)
(* State.                                                                  *)
(***************************************************************************)
VARIABLES
    secret,   \* Controller.secret
    issued,   \* the token strings CreateUser has sent in its responses
    auth,     \* Client.auth
    baseURL,  \* Client.baseURL
    op,       \* the operation that ran last
    req,      \* its inputs
    res       \* what it returned or wrote

vars == <<secret, issued, auth, baseURL, op, req, res>>

\* the token inside a CreateUser response body
tokenOfBody(body) == SubSeq(body, 8, Len(body) - 3)

\* POST /users
CreateUser ==
    \E rnd \in SampleIDs :
        LET id == createUserToken(secret, rnd) IN
        /\ op' = "CreateUser"
        /\ req' = [rnd |-> rnd]
        /\ res' = [status |-> StatusOK, body |-> jsonEncodeID(id)]
        /\ issued' = issued \cup {id}
        /\ UNCHANGED <<secret, auth, baseURL>>

\* GET /users/:id
GetUser ==
    \E id \in Tokens[secret] \cup issued :
        /\ op' = "GetUser"
        /\ req' = [id |-> id]
        /\ res' = [status |-> getUserStatus(secret, id), user |-> getUser(secret, id)]
        /\ UNCHANGED <<secret, issued, auth, baseURL>>

\* a request served by the handler WrapC returned
WrapC ==
    \E header \in Headers[secret] \cup { Bearer \o t : t \in issued } :
        /\ op' = "WrapC"
        /\ req' = [header |-> header]
        /\ res' = wrapC(secret, header)
        /\ UNCHANGED <<secret, issued, auth, baseURL>>

\* the strings a caller hands to SetAuthorization: none, or the id of a
\* CreateUser response
AuthStrings == [s \in Secrets |-> { <<>> } \cup { createUserToken(s, rnd) : rnd \in SampleIDs }]

\* Client.SetAuthorization
SetAuthorization ==
    \E a \in AuthStrings[secret] :
        /\ a # auth
        /\ op' = "SetAuthorization"
        /\ req' = [auth |-> a]
        /\ res' = [auth |-> a]
        /\ auth' = a
        /\ UNCHANGED <<secret, issued, baseURL>>

(***************************************************************************)
(* package client: Client.NewRequest                                       *)
(***************************************************************************)
\* Route.URLPath: the route's own code.  A route needs the variables in
\* rt.needs and answers rt.path when the map it is given binds them all.
URLPath(rt, bindings) ==
    IF rt.needs \subseteq DOMAIN bindings
    THEN [path |-> rt.path, ok |-> TRUE]
    ELSE [path |-> "", ok |-> FALSE]

\* url.Parse on the paths of the model: ":" has no scheme before its colon
urlParse(path) ==
    IF path = ":" THEN [ok |-> FALSE, Path |-> "", RawQuery |-> ""]
    ELSE [ok |-> TRUE, Path |-> path, RawQuery |-> ""]

\* URL.ResolveReference for a reference without scheme and host
ResolveReference(base, rel) ==
    IF rel.Path = "" /\ rel.RawQuery = ""
    THEN base
    ELSE [Scheme |-> base.Scheme, Host |-> base.Host,
          Path |-> rel.Path, RawQuery |-> rel.RawQuery]

\* url.QueryEscape on the keys and values of the model
QueryEscape(v) == IF v = "a b" THEN "a+b" ELSE v

\* the keys a form may hold, in the sorted order Values.Encode visits them
FormKeys == <<"eyes", "tongue">>

FormValues == {"oo", "a b"}

RECURSIVE encodeFrom(_, _)
encodeFrom(values, k) ==
    IF k > Len(FormKeys) THEN ""
    ELSE LET key  == FormKeys[k]
             rest == encodeFrom(values, k + 1)
         IN  IF key \in DOMAIN values
             THEN QueryEscape(key) \o "=" \o QueryEscape(values[key])
                  \o (IF rest = "" THEN "" ELSE "&" \o rest)
             ELSE rest

\* url.Values.Encode
Encode(values) == encodeFrom(values, 1)

\* a mutant of isPrimary: HEAD counts as a method of its own
isPrimary_headCounts(m) == m # "OPTIONS"

\* the test of the loop: m is a method other than HEAD and OPTIONS
isPrimary(m) == m # "HEAD" /\ m # "OPTIONS"

\* the loop over methods of a route with several methods: i is the next
\* index, method the method chosen so far
RECURSIVE pickMethod(_, _, _)
pickMethod(methods, i, method) ==
    IF i > Len(methods) THEN [ok |-> TRUE, method |-> method]
    ELSE LET m == methods[i] IN
         IF isPrimary(m) THEN
             IF method # "" THEN [ok |-> FALSE, method |-> method]
             ELSE pickMethod(methods, i + 1, m)
         ELSE pickMethod(methods, i + 1, method)

\* a mutant of formInQuery: only GET sends the form to the query string
formInQuery_getOnly(method) == method = "GET"

\* the test that sends the encoded form to the query string
formInQuery(method) == method = "GET" \/ method = "HEAD"

\* http.NewRequest defaults an empty method to GET
httpMethod(method) == IF method = "" THEN "GET" ELSE method

NilRequest ==
    [isNil |-> TRUE, Method |-> "", URL |-> [Scheme |-> "", Host |-> "", Path |-> "", RawQuery |-> ""],
     hasBody |-> FALSE, Body |-> "", Authorization |-> <<>>, ContentType |-> ""]

errNil == [kind |-> "nil", methods |-> <<>>]

\* Client.NewRequest for the client c = [baseURL, auth].  methods is the
\* slice the range over the HTTPMethods() map fills, in the map's iteration
\* order.  The result holds the request, the error and the local `method`.
NewRequest(c, rt, rtVars, form, methods) ==
    LET pvars  == IF rtVars.isNil THEN <<>> ELSE rtVars.vars
        p      == URLPath(rt, pvars)
        rel    == urlParse(p.path)
        picked == IF Len(methods) = 1
                  THEN [ok |-> TRUE, method |-> methods[1]]
                  ELSE pickMethod(methods, 1, "")
        method == picked.method
        abs0   == ResolveReference(c.baseURL, rel)
        inQ    == ~form.isNil /\ formInQuery(method)
        abs    == IF inQ THEN [abs0 EXCEPT !.RawQuery = Encode(form.values)] ELSE abs0
        hasB   == ~form.isNil /\ ~formInQuery(method)
    IN  IF ~p.ok THEN
            [req |-> NilRequest, err |-> [kind |-> "path", methods |-> <<>>], method |-> ""]
        ELSE IF ~rel.ok THEN
            [req |-> NilRequest, err |-> [kind |-> "unparseable", methods |-> <<>>], method |-> ""]
        ELSE IF Len(methods) = 0 THEN
            [req |-> NilRequest, err |-> [kind |-> "no methods", methods |-> <<>>], method |-> ""]
        ELSE IF ~picked.ok THEN
            [req |-> NilRequest, err |-> [kind |-> "multiple methods", methods |-> methods],
             method |-> method]
        ELSE
            [req |-> [isNil |-> FALSE,
                      Method |-> httpMethod(method),
                      URL |-> abs,
                      hasBody |-> hasB,
                      Body |-> IF hasB THEN Encode(form.values) ELSE "",
                      Authorization |-> IF c.auth # <<>> THEN Bearer \o c.auth ELSE <<>>,
                      ContentType |-> IF hasB THEN "application/x-www-form-urlencoded" ELSE ""],
             err |-> errNil,
             method |-> method]

(***************************************************************************)
(* Inputs of NewRequest.                                                   *)
(***************************************************************************)
Methods == {"GET", "HEAD", "OPTIONS", "POST"}

MethodSets == {S \in SUBSET Methods : Cardinality(S) <= MaxMethods}

\* the orders in which a range over the map may visit the methods
Orders(S) ==
    {f \in [1..Cardinality(S) -> S] : \A m \in S : \E i \in 1..Cardinality(S) : f[i] = m}

RoutePaths ==
    { [path |-> "/users", needs |-> {}],
      [path |-> "/users/u1", needs |-> {"id"}],
      [path |-> ":", needs |-> {}] }

Routes == {[methods |-> S, path |-> r.path, needs |-> r.needs] : S \in MethodSets, r \in RoutePaths}

\* rtVars: nil, or a Vars whose map binds id
RouteVars == { [isNil |-> TRUE, vars |-> <<>>],
               [isNil |-> FALSE, vars |-> [v \in {"id"} |-> "u1"]] }

\* form: nil, or a url.Values of at most MaxFormKeys keys
Forms ==
    { [isNil |-> TRUE, values |-> <<>>] }
    \cup { [isNil |-> FALSE, values |-> f] :
             f \in UNION { [K -> FormValues] :
                             K \in {K \in SUBSET {FormKeys[k] : k \in 1..Len(FormKeys)} :
                                      Cardinality(K) <= MaxFormKeys} } }

BaseURLs ==
    { [Scheme |-> "", Host |-> "", Path |-> "", RawQuery |-> ""],
      [Scheme |-> "http", Host |-> "api.test", Path |-> "", RawQuery |-> ""] }

\* Client.NewRequest
NewRequestCall ==
    \E rt \in Routes, rtVars \in RouteVars, form \in Forms :
        \E methods \in Orders(rt.methods) :
            /\ op' = "NewRequest"
            /\ req' = [rt |-> rt, rtVars |-> rtVars, form |-> form]
            /\ res' = NewRequest([baseURL |-> baseURL, auth |-> auth], rt, rtVars, form, methods)
            /\ UNCHANGED <<secret, issued, auth, baseURL>>

(***************************************************************************)
(* package client: Client.Do                                               *)
(***************************************************************************)
\* ioutil.ReadAll(resp.Body): fails when the body cannot be read
ReadAll(body) == [ok |-> body.readable]

\* usererrors.UnmarshalJSON: a body that holds a structured application
\* error decodes to that error, any other body is a parse failure
UnmarshalJSON(body) ==
    IF body.userError # "" THEN [ok |-> TRUE, kind |-> body.userError]
    ELSE [ok |-> FALSE, kind |-> ""]

\* json.NewDecoder(resp.Body).Decode(v): err == nil
jsonDecode(body) == body.readable /\ body.json

noErr == [kind |-> "nil", code |-> 0, userKind |-> ""]

\* a mutant of isErrorStatus: only server errors carry an error body
isErrorStatus_serverOnly(code) == code > 499

\* the first branch of the status test: the error body is read and parsed
isErrorStatus(code) == code > 399

\* the second branch: the status is neither an error nor a success
isUnexpectedStatus(code) == code > 299 \/ code < 199

\* Client.Do.  v is "nil", "ptr" or "value" (a destination that is not a
\* pointer); tr is what c.do returns: an error, or a response with a
\* status code and a body.
Do(v, tr) ==
    IF ~(v = "nil" \/ v = "ptr") THEN
        [respNil |-> TRUE, status |-> 0, decodeCalled |-> FALSE,
         err |-> [kind |-> "value must be a pointer or nil", code |-> 0, userKind |-> ""]]
    ELSE IF tr.failed THEN
        [respNil |-> TRUE, status |-> 0, decodeCalled |-> FALSE,
         err |-> [kind |-> "transport", code |-> 0, userKind |-> ""]]
    ELSE IF isErrorStatus(tr.StatusCode) THEN
        IF ~ReadAll(tr.body).ok THEN
            [respNil |-> FALSE, status |-> tr.StatusCode, decodeCalled |-> FALSE,
             err |-> [kind |-> "unable to read response body", code |-> 0, userKind |-> ""]]
        ELSE IF ~UnmarshalJSON(tr.body).ok THEN
            [respNil |-> FALSE, status |-> tr.StatusCode, decodeCalled |-> FALSE,
             err |-> [kind |-> "unable to parse error body", code |-> 0, userKind |-> ""]]
        ELSE
            [respNil |-> FALSE, status |-> tr.StatusCode, decodeCalled |-> FALSE,
             err |-> [kind |-> "usererror", code |-> 0,
                      userKind |-> UnmarshalJSON(tr.body).kind]]
    ELSE IF isUnexpectedStatus(tr.StatusCode) THEN
        [respNil |-> FALSE, status |-> tr.StatusCode, decodeCalled |-> FALSE,
         err |-> [kind |-> "unexpected status code", code |-> tr.StatusCode, userKind |-> ""]]
    ELSE IF v # "nil" THEN
        IF ~jsonDecode(tr.body) THEN
            [respNil |-> FALSE, status |-> tr.StatusCode, decodeCalled |-> TRUE,
             err |-> [kind |-> "unable to parse response body", code |-> 0, userKind |-> ""]]
        ELSE
            [respNil |-> FALSE, status |-> tr.StatusCode, decodeCalled |-> TRUE, err |-> noErr]
    ELSE
        [respNil |-> FALSE, status |-> tr.StatusCode, decodeCalled |-> FALSE, err |-> noErr]

(***************************************************************************)
(* Inputs of Do.                                                           *)
(***************************************************************************)
StatusCodes == {100, 198, 199, 200, 204, 299, 300, 399, 400, 404, 418, 500}

Bodies ==
    { [readable |-> TRUE,  json |-> FALSE, userError |-> "", text |-> ""],
      [readable |-> TRUE,  json |-> TRUE,  userError |-> "", text |-> "{\"id\":\"x\"}"],
      [readable |-> TRUE,  json |-> TRUE,  userError |-> "not_found", text |-> "not_found"],
      [readable |-> TRUE,  json |-> TRUE,  userError |-> "internal", text |-> "internal"],
      [readable |-> TRUE,  json |-> FALSE, userError |-> "", text |-> "<html>"],
      [readable |-> FALSE, json |-> FALSE, userError |-> "", text |-> ""] }

noBody == [readable |-> TRUE, json |-> FALSE, userError |-> "", text |-> ""]

Transports ==
    { [failed |-> TRUE, StatusCode |-> 0, body |-> noBody] }
    \cup { [failed |-> FALSE, StatusCode |-> code, body |-> b] : code \in StatusCodes, b \in Bodies }

Destinations == {"nil", "ptr", "value"}

\* Client.Do
DoCall ==
    \E v \in Destinations, tr \in Transports :
        /\ op' = "Do"
        /\ req' = [v |-> v, tr |-> tr]
        /\ res' = Do(v, tr)
        /\ UNCHANGED <<secret, issued, auth, baseURL>>

(***************************************************************************)
(* package app                                                             *)
(***************************************************************************)
nilDB == [isNil |-> TRUE, dsn |-> "", maxIdle |-> 0, maxOpen |-> 0]

\* buildDB; opened is whether sqlx.Open("postgres", dsn) returned no error
buildDB(dsn, maxIdle, maxOpen, opened) ==
    IF ~opened THEN [db |-> nilDB, err |-> "sqlx.Open"]
    ELSE [db |-> [isNil |-> FALSE, dsn |-> dsn, maxIdle |-> maxIdle, maxOpen |-> maxOpen],
          err |-> "nil"]

\* closeAll on closers that all close cleanly: the closers closed
closeAll(closers) == {closers[i] : i \in 1..Len(closers)}

\* the handler table New builds: the two user routes on mainMux and the
\* auth wrapper around privMux for every other request
mainMux(userSecret) ==
    [routes |-> { [method |-> "POST", pattern |-> "/users", handler |-> "CreateUser"],
                  [method |-> "GET", pattern |-> "/users/:id", handler |-> "GetUser"] },
     NotFoundHandler |-> "WrapC(privMux)",
     secret |-> userSecret]

nilMux == [routes |-> {}, NotFoundHandler |-> "", secret |-> <<>>]

\* app.New: what it returns (app is nil when isNil) and what it closed
New(config, opened) ==
    LET built   == buildDB(config.DBDSN, config.DBMaxIdle, config.DBMaxOpen, opened)
        closers == <<built.db>>
    IN  IF built.err # "nil" THEN
            \* the deferred app.Close() runs on the empty closers
            [isNil |-> TRUE, Srv |-> nilMux, closers |-> <<>>, err |-> built.err,
             closed |-> closeAll(<<>>)]
        ELSE
            \* app.Srv and app.closers are set, and then `return nil, nil`
            [isNil |-> TRUE, Srv |-> nilMux, closers |-> <<>>, err |-> "nil", closed |-> {}]

DSNs == {"postgres://saypi@db/saypi", ""}

Configurations ==
    { [DBDSN |-> d, DBMaxIdle |-> 2, DBMaxOpen |-> 5, UserSecret |-> s] : d \in DSNs, s \in Secrets }

\* app.New
NewCall ==
    \E config \in Configurations, opened \in BOOLEAN :
        /\ config.UserSecret = secret
        /\ op' = "New"
        /\ req' = [config |-> config, opened |-> opened]
        /\ res' = New(config, opened)
        /\ UNCHANGED <<secret, issued, auth, baseURL>>

(***************************************************************************)
(* Specification.                                                          *)
(***************************************************************************)
Init ==
    /\ secret \in Secrets
    /\ issued = {}
    /\ auth = <<>>
    /\ baseURL \in BaseURLs
    /\ op = "init"
    /\ req = [none |-> TRUE]
    /\ res = [none |-> TRUE]

\* the server: the controller's handlers and the application constructor
Next ==
    \/ CreateUser
    \/ GetUser
    \/ WrapC
    \/ NewCall

Spec == Init /\ [][Next]_vars

\* the client building requests
InitRequest == Init /\ secret = <<7>>

NextRequest ==
    \/ SetAuthorization
    \/ NewRequestCall

SpecRequest == InitRequest /\ [][NextRequest]_vars

\* the client translating responses
NextDo == DoCall

SpecDo == Init /\ [][NextDo]_vars

(***************************************************************************)
(* Properties.                                                             *)
(***************************************************************************)
\* t is the base64url encoding of idLen identity bytes followed by the MAC
\* of those bytes under secret s
IsValidToken(s, t) ==
    LET d == DecodeString(t) IN
    /\ d.ok
    /\ Len(d.raw) = idLen + sha256Size
    /\ SubSeq(d.raw, idLen + 1, Len(d.raw)) = HMACSHA256(s, SubSeq(d.raw, 1, idLen))
    /\ t = EncodeToString(d.raw)

\* the identity a valid token carries
IdentityOf(t) == SubSeq(DecodeString(t).raw, 1, idLen)

\* C1: round trip. getUser resolves every token CreateUser emits to the
\* token's leading identity bytes (a non-empty result), GetUser answers 204
\* for an issued token and the handler of WrapC lets it through.
C1_RoundTrip ==
    /\ op = "CreateUser" =>
          LET t == tokenOfBody(res.body) IN
          /\ getUser(secret, t) # <<>>
          /\ getUser(secret, t) = IdentityOf(t)
    /\ (op = "GetUser" /\ req.id \in issued) => res.status = StatusNoContent
    /\ (op = "WrapC" /\ \E t \in issued : req.header = Bearer \o t) => res.innerCalls = 1

\* C2: a request whose Authorization header is "Bearer " followed by a
\* token that verifies (the encoding of an identity and its MAC under the
\* secret, which getUser is to resolve to that identity) reaches the inner
\* handler exactly once, with that identity under the user-identity key.
C2_InnerGetsIdentity ==
    (/\ op = "WrapC"
     /\ HasPrefix(req.header, Bearer)
     /\ IsValidToken(secret, TrimPrefix(req.header, Bearer)))
    => /\ res.innerCalls = 1
       /\ res.hasUserID
       /\ res.userID = IdentityOf(TrimPrefix(req.header, Bearer))

\* C3: a request without the exact prefix "Bearer " (an absent header
\* included), or whose remainder getUser does not resolve, is answered 401
\* and never reaches the inner handler.
C3_Rejected ==
    (/\ op = "WrapC"
     /\ \/ ~HasPrefix(req.header, Bearer)
        \/ getUser(secret, TrimPrefix(req.header, Bearer)) = <<>>)
    => /\ res.status = StatusUnauthorized
       /\ res.innerCalls = 0

\* a request with a well-formed but forged bearer token was answered 401
C3_Witness ==
    /\ op = "WrapC"
    /\ HasPrefix(req.header, Bearer)
    /\ DecodeString(TrimPrefix(req.header, Bearer)).ok
    /\ Len(DecodeString(TrimPrefix(req.header, Bearer)).raw) = idLen + sha256Size
    /\ ~IsValidToken(secret, TrimPrefix(req.header, Bearer))
    /\ res.status = StatusUnauthorized
    /\ res.innerCalls = 0

\* C4: getUser returns the empty string for every string that is not the
\* encoding of an identity followed by its MAC under the secret, whether the
\* string is undecodable, of the wrong length or forged.
C4_InvalidRejected ==
    (op = "GetUser" /\ ~IsValidToken(secret, req.id))
    => /\ res.user = <<>>
       /\ res.status = StatusNotFound

\* getUser was given a decodable string of the right length with a MAC that
\* does not match, and returned the empty string
C4_Witness ==
    /\ op = "GetUser"
    /\ DecodeString(req.id).ok
    /\ Len(DecodeString(req.id).raw) = idLen + sha256Size
    /\ ~IsValidToken(secret, req.id)
    /\ res.user = <<>>

\* the form of the last NewRequest call is not nil and holds a key
hasForm == ~req.form.isNil /\ DOMAIN req.form.values # {}

\* C5: form placement. With a non-empty form, a resolved method of GET or
\* HEAD puts the encoded form in the query string, with no body and no
\* Content-Type; any other resolved method puts it in the body, with the
\* form Content-Type and an empty query string.
C5_FormPlacement ==
    (op = "NewRequest" /\ res.err.kind = "nil" /\ hasForm)
    => IF res.method \in {"GET", "HEAD"}
       THEN /\ res.req.URL.RawQuery = Encode(req.form.values)
            /\ ~res.req.hasBody
            /\ res.req.ContentType = ""
       ELSE /\ res.req.hasBody
            /\ res.req.Body = Encode(req.form.values)
            /\ res.req.ContentType = "application/x-www-form-urlencoded"
            /\ res.req.URL.RawQuery = ""

\* a HEAD request was built with an escaped form value in its query string
C5_Witness ==
    /\ op = "NewRequest"
    /\ res.err.kind = "nil"
    /\ hasForm
    /\ res.method = "HEAD"
    /\ res.req.URL.RawQuery = "eyes=a+b"
    /\ ~res.req.hasBody

\* the methods of a set other than HEAD and OPTIONS
Primary(M) == M \ {"HEAD", "OPTIONS"}

\* C6: method resolution, once the path is expanded and parsed. One method:
\* that method. Several methods with one primary method: the primary one,
\* whatever the iteration order. Two or more primary methods, or no method
\* at all: an error and no request.
C6_MethodResolution ==
    (op = "NewRequest" /\ res.err.kind \notin {"path", "unparseable"})
    => LET M == req.rt.methods IN
       /\ Cardinality(M) = 1 =>
              /\ res.err.kind = "nil"
              /\ ~res.req.isNil
              /\ M = {res.req.Method}
       /\ (Cardinality(M) > 1 /\ Cardinality(Primary(M)) = 1) =>
              /\ res.err.kind = "nil"
              /\ ~res.req.isNil
              /\ Primary(M) = {res.req.Method}
       /\ Cardinality(Primary(M)) >= 2 =>
              /\ res.err.kind = "multiple methods"
              /\ res.req.isNil
       /\ M = {} =>
              /\ res.err.kind = "no methods"
              /\ res.req.isNil

\* a route with the methods GET and HEAD gave a GET request
C6_Witness ==
    /\ op = "NewRequest"
    /\ req.rt.methods = {"GET", "HEAD"}
    /\ res.err.kind = "nil"
    /\ res.req.Method = "GET"

\* Do got a response (the destination is nil or a pointer, the transport
\* did not fail)
gotResponse == op = "Do" /\ req.v # "value" /\ ~req.tr.failed

\* C7, as claimed: Do on a response with status 418 returns the
\* unexpected-status error carrying 418, whatever the body.
C7_UnexpectedStatus418 ==
    (gotResponse /\ req.tr.StatusCode = 418)
    => /\ res.err.kind = "unexpected status code"
       /\ res.err.code = 418

\* C7, amended: Do on a response with status 418 never returns the
\* unexpected-status error and never decodes into the destination. It reads
\* the body and returns the application error the body decodes to, the
\* error-body parse failure when the body does not decode as one, and the
\* read failure when the body cannot be read.
C7_ErrorBody418 ==
    (gotResponse /\ req.tr.StatusCode = 418)
    => /\ res.err.kind # "unexpected status code"
       /\ ~res.decodeCalled
       /\ res.err.kind =
             IF ~req.tr.body.readable THEN "unable to read response body"
             ELSE IF req.tr.body.userError = "" THEN "unable to parse error body"
             ELSE "usererror"
       /\ res.err.kind = "usererror" => res.err.userKind = req.tr.body.userError

\* Do turned a 418 response with a not_found error body into that error
C7_Witness ==
    /\ gotResponse
    /\ req.tr.StatusCode = 418
    /\ res.err.kind = "usererror"
    /\ res.err.userKind = "not_found"

\* C8: Do succeeds (decodes into a non-nil destination, returns a nil
\* error) only for a status in 200..299; for every status below 200 and in
\* 300..399 it returns the unexpected-status error for that status and
\* never decodes.
C8_SuccessOnly2xx ==
    gotResponse
    => LET code == req.tr.StatusCode IN
       /\ res.err.kind = "nil" => (code >= 200 /\ code <= 299)
       /\ res.decodeCalled => (code >= 200 /\ code <= 299)
       /\ (code < 200 \/ (code >= 300 /\ code <= 399)) =>
              /\ res.err.kind = "unexpected status code"
              /\ res.err.code = code
              /\ ~res.decodeCalled

\* C9: a request NewRequest returns carries a method of the route's
\* HTTPMethods() set, sets of only HEAD and OPTIONS included, and the form
\* is placed by that same method.
C9_MethodOfRoute ==
    (op = "NewRequest" /\ res.err.kind = "nil")
    => /\ res.req.Method \in req.rt.methods
       /\ ~req.form.isNil => (res.req.hasBody <=> res.req.Method \notin {"GET", "HEAD"})

\* C10: New returns a non-nil App whose Srv is the main router and whose
\* closers hold the database, with a nil error, whenever buildDB succeeds;
\* it returns a nil App and buildDB's error whenever buildDB fails.
C10_NewReturnsApp ==
    op = "New"
    => IF req.opened
       THEN /\ ~res.isNil
            /\ res.Srv = mainMux(req.config.UserSecret)
            /\ \E i \in 1..Len(res.closers) : res.closers[i].dsn = req.config.DBDSN
            /\ res.err = "nil"
       ELSE /\ res.isNil
            /\ res.err = "sqlx.Open"

====
